---------------------------- MODULE Spec2Model ----------------------------
(***************************************************************************)
(* importguard: check_import (src/src/importguard/core.py) and the        *)
(* ImportResult properties (src/src/importguard/models.py).                *)
(*                                                                         *)
(* Spec     models one call of check_import: the measurement loop, the    *)
(*          aggregation of the run totals, the budget check and the       *)
(*          banned-import check.                                           *)
(* SpecTop  models ImportResult.top_imports on constructed results.        *)
(*                                                                         *)
(* Times are integers in microseconds.  A millisecond value (a Python     *)
(* float obtained by dividing an integer by 1000.0 or 2000.0) is kept as  *)
(* the exact ratio <<numerator, denominator>>; for the small integers of  *)
(* the model the float division is exact enough that comparing the floats *)
(* and comparing the ratios agree.  Violation.message and .details are    *)
(* display strings that nothing reads back and are left out.              *)
(***************************************************************************)
EXTENDS Integers, Sequences, FiniteSets

VARIABLES
    pc,            \* "loop" | "returned" | "raised" (check_import); "result" | "top" (SpecTop)
    module,        \* check_import argument module
    max_ms,        \* check_import argument max_ms: None or Some(ratio)
    banned_arg,    \* check_import argument banned: None or Some(set of names)
    repeat,        \* check_import argument repeat
    banned,        \* local banned after line 60
    i,             \* iterations of the measurement loop done so far
    timings,       \* local timings: the list returned by the latest run_import_timing
    all_times_us,  \* local all_times_us
    all_timings,   \* local all_timings
    measured,      \* history: the totals run_import_timing returned, in call order
    result,        \* the ImportResult (None before it is built)
    top_n,         \* argument of the latest top_imports call
    top            \* value returned by the latest top_imports call

vars == <<pc, module, max_ms, banned_arg, repeat, banned, i, timings,
          all_times_us, all_timings, measured, result, top_n, top>>

---------------------------------------------------------------------------
(* Bounds of the model *)

MaxRepeat == 3
MaxTimeUs == 1
MaxBudgetUs == 1
MaxLen == 2
MaxSelfUs == 1
MaxTopN == 3

(* Program constants *)

UsPerMs == 1000
TwoRunsUsPerMs == 2000

Names == {"os", "posix", "nt"}
BanNames == {"posix", "nt"}

---------------------------------------------------------------------------
(* Python values *)

None == [none |-> TRUE]
Some(v) == [none |-> FALSE, val |-> v]

Ok(v) == [raised |-> FALSE, val |-> v]
IndexError == [raised |-> TRUE, exc |-> "IndexError"]

Ratio(num, den) == <<num, den>>
RatioGT(a, b) == a[1] * b[2] > b[1] * a[2]
RatioEQ(a, b) == a[1] * b[2] = b[1] * a[2]

Min2(a, b) == IF a <= b THEN a ELSE b
Max2(a, b) == IF a >= b THEN a ELSE b

\* list[i] with Python's 0-based and negative indices
PyIndex(s, k) ==
    LET n == Len(s)
        j == IF k < 0 THEN k + n ELSE k
    IN  IF 0 <= j /\ j < n THEN Ok(s[j + 1]) ELSE IndexError

\* list[:n]
PySliceTo(s, n) ==
    LET stop == IF n < 0 THEN Max2(0, Len(s) + n) ELSE Min2(n, Len(s))
    IN  SubSeq(s, 1, stop)

Reverse(s) == [k \in 1..Len(s) |-> s[Len(s) + 1 - k]]

\* the sort keys: the value itself (no key=), or key=lambda x: x.self_time_us
KeyedByValue(s) == [k \in 1..Len(s) |-> [key |-> s[k], item |-> s[k]]]
KeyedBySelfTime(s) == [k \in 1..Len(s) |-> [key |-> s[k].self_time_us, item |-> s[k]]]
Items(ps) == [k \in 1..Len(ps) |-> ps[k].item]

RECURSIVE InsertByKey(_, _)
InsertByKey(sorted, p) ==
    IF sorted = <<>> THEN <<p>>
    ELSE IF p.key < Head(sorted).key THEN <<p>> \o sorted
    ELSE <<Head(sorted)>> \o InsertByKey(Tail(sorted), p)

\* a stable ascending sort (list.sort is stable)
RECURSIVE StableSort(_)
StableSort(ps) ==
    IF ps = <<>> THEN <<>>
    ELSE InsertByKey(StableSort(SubSeq(ps, 1, Len(ps) - 1)), ps[Len(ps)])

\* sorted(..., reverse=reverse) of a keyed list: with reverse the list is
\* reversed, sorted ascending and reversed again, which keeps equal keys in
\* input order
PySorted(keyed, reverse) ==
    IF reverse
    THEN Items(Reverse(StableSort(Reverse(keyed))))
    ELSE Items(StableSort(keyed))

---------------------------------------------------------------------------
(* models.py *)

EXCEEDED_BUDGET == "exceeded_budget"
BANNED_IMPORT == "banned_import"

ImportTiming(m, self_us, cumulative_us) ==
    [module |-> m, self_time_us |-> self_us, cumulative_time_us |-> cumulative_us]

Violation(type, m) == [type |-> type, module |-> m]

ImportResult(m, total_us, imports, times, runs) ==
    [module |-> m, total_time_us |-> total_us, imports |-> imports,
     violations |-> <<>>, banned_found |-> <<>>,
     all_times_us |-> times, num_runs |-> runs]

total_ms(r) == Ratio(r.total_time_us, UsPerMs)

median_ms(r) ==
    IF r.all_times_us = <<>> THEN None
    ELSE LET sorted_times == PySorted(KeyedByValue(r.all_times_us), FALSE)
             n == Len(sorted_times)
         IN  IF n % 2 = 1
             THEN Some(Ratio(sorted_times[n \div 2 + 1], UsPerMs))
             ELSE Some(Ratio(sorted_times[n \div 2] + sorted_times[n \div 2 + 1],
                             TwoRunsUsPerMs))

min_ms(r) ==
    IF r.all_times_us = <<>> THEN None
    ELSE LET lo == CHOOSE x \in {r.all_times_us[k] : k \in 1..Len(r.all_times_us)} :
                       \A k \in 1..Len(r.all_times_us) : x <= r.all_times_us[k]
         IN  Some(Ratio(lo, UsPerMs))

passedBudgetOnly(r) ==
    \A k \in 1..Len(r.violations) : r.violations[k].type # EXCEEDED_BUDGET

passed(r) == Len(r.violations) = 0

top_importsTiesReversed(imports, n) ==
    PySliceTo(Reverse(PySorted(KeyedBySelfTime(imports), FALSE)), n)

top_imports(imports, n) == PySliceTo(PySorted(KeyedBySelfTime(imports), TRUE), n)

---------------------------------------------------------------------------
(* parser.py: find_banned_imports, as section 4.4 of the specification    *)
(* describes it: the names of the records that are exact members of the   *)
(* ban set, each once, in order of first occurrence.                       *)

InSeq(x, s) == \E k \in 1..Len(s) : s[k] = x

RECURSIVE ScanBanned(_, _, _)
ScanBanned(ts, ban, found) ==
    IF ts = <<>> THEN found
    ELSE LET m == Head(ts).module
         IN  ScanBanned(Tail(ts), ban,
                        IF m \in ban /\ ~InSeq(m, found) THEN Append(found, m) ELSE found)

find_banned_imports(ts, ban) == ScanBanned(ts, ban, <<>>)

---------------------------------------------------------------------------
(* core.py: check_import *)

Truthy(opt) == ~opt.none /\ opt.val # {}

BannedOrDefault(arg) == IF Truthy(arg) THEN arg.val ELSE {"posix"}

\* banned = banned or set()
BannedOrEmpty(arg) == IF Truthy(arg) THEN arg.val ELSE {}

KeptTimingsMerged(prev, ts) == prev \o ts

\* all_timings = timings
KeptTimings(prev, ts) == ts

FinalTimeUsUnsorted(times, rep) ==
    IF rep > 1
    THEN LET n == Len(times)
         IN  IF n % 2 = 1 THEN PyIndex(times, n \div 2)
             ELSE LET a == PyIndex(times, n \div 2 - 1)
                      b == PyIndex(times, n \div 2)
                  IN  IF a.raised THEN a ELSE IF b.raised THEN b
                      ELSE Ok((a.val + b.val) \div 2)
    ELSE IF times # <<>> THEN PyIndex(times, 0) ELSE Ok(0)

FinalTimeUsNoGuard(times, rep) ==
    IF rep > 1
    THEN LET sorted_times == PySorted(KeyedByValue(times), FALSE)
             n == Len(sorted_times)
         IN  IF n % 2 = 1 THEN PyIndex(sorted_times, n \div 2)
             ELSE LET a == PyIndex(sorted_times, n \div 2 - 1)
                      b == PyIndex(sorted_times, n \div 2)
                  IN  IF a.raised THEN a ELSE IF b.raised THEN b
                      ELSE Ok((a.val + b.val) \div 2)
    ELSE PyIndex(times, 0)

\* lines 71-80: the median of the run totals
FinalTimeUs(times, rep) ==
    IF rep > 1
    THEN LET sorted_times == PySorted(KeyedByValue(times), FALSE)
             n == Len(sorted_times)
         IN  IF n % 2 = 1 THEN PyIndex(sorted_times, n \div 2)
             ELSE LET a == PyIndex(sorted_times, n \div 2 - 1)
                      b == PyIndex(sorted_times, n \div 2)
                  IN  IF a.raised THEN a ELSE IF b.raised THEN b
                      ELSE Ok((a.val + b.val) \div 2)
    ELSE IF times # <<>> THEN PyIndex(times, 0) ELSE Ok(0)

BudgetViolationsIfTruthy(m, final_time_us, budget) ==
    IF ~budget.none /\ budget.val[1] # 0
    THEN LET final_ms == Ratio(final_time_us, UsPerMs)
         IN  IF RatioGT(final_ms, budget.val)
             THEN <<Violation(EXCEEDED_BUDGET, m)>> ELSE <<>>
    ELSE <<>>

\* lines 94-105: the violations the budget check appends
BudgetViolations(m, final_time_us, budget) ==
    IF ~budget.none
    THEN LET final_ms == Ratio(final_time_us, UsPerMs)
         IN  IF RatioGT(final_ms, budget.val)
             THEN <<Violation(EXCEEDED_BUDGET, m)>> ELSE <<>>
    ELSE <<>>

BannedCheckPerRecord(ts, ban) ==
    LET hits == SelectSeq(ts, LAMBDA t : t.module \in ban)
    IN  IF ban # {}
        THEN [ran |-> TRUE, banned_found |-> find_banned_imports(ts, ban),
              violations |-> [k \in 1..Len(hits) |->
                                  Violation(BANNED_IMPORT, hits[k].module)]]
        ELSE [ran |-> FALSE, banned_found |-> <<>>, violations |-> <<>>]

\* lines 107-118: banned_found and the violations the ban check appends
BannedCheck(ts, ban) ==
    IF ban # {}
    THEN LET banned_found == find_banned_imports(ts, ban)
         IN  [ran |-> TRUE, banned_found |-> banned_found,
              violations |-> [k \in 1..Len(banned_found) |->
                                  Violation(BANNED_IMPORT, banned_found[k])]]
    ELSE [ran |-> FALSE, banned_found |-> <<>>, violations |-> <<>>]

CheckedBannedFirst(r, budget, ban) ==
    LET bc == BannedCheck(r.imports, ban)
    IN  [r EXCEPT !.banned_found = IF bc.ran THEN bc.banned_found ELSE @,
                  !.violations = bc.violations
                                 \o BudgetViolations(r.module, r.total_time_us, budget)]

\* lines 91-120: the result with its violations, budget check first
Checked(r, budget, ban) ==
    LET bc == BannedCheck(r.imports, ban)
    IN  [r EXCEPT !.banned_found = IF bc.ran THEN bc.banned_found ELSE @,
                  !.violations = BudgetViolations(r.module, r.total_time_us, budget)
                                 \o bc.violations]

---------------------------------------------------------------------------
(* Inputs *)

RECURSIVE SeqsUpTo(_, _)
SeqsUpTo(S, n) ==
    IF n = 0 THEN {<<>>}
    ELSE LET shorter == SeqsUpTo(S, n - 1)
         IN  shorter \cup {Append(s, x) : s \in {t \in shorter : Len(t) = n - 1}, x \in S}

BudgetArgs == {None} \cup {Some(Ratio(b, UsPerMs)) : b \in 0..MaxBudgetUs}
BannedArgs == {None} \cup {Some(S) : S \in SUBSET BanNames}

\* What run_import_timing hands to check_import.  check_import reads only
\* the module names of the records, so these carry zero-duration imports.
RunTimings == SeqsUpTo({ImportTiming(m, 0, 0) : m \in Names}, MaxLen)
RunTotals == 0..MaxTimeUs

\* The records of a result top_imports is called on: cumulative time is the
\* self time (a leaf import) or larger (an import with children).
TopRecords ==
    UNION {{ImportTiming(m, s, s), ImportTiming(m, s, MaxSelfUs + 1)} :
               m \in Names, s \in 0..MaxSelfUs}
TopTimings == SeqsUpTo(TopRecords, MaxLen)

---------------------------------------------------------------------------
(* check_import *)

Init ==
    /\ pc = "loop"
    /\ module = "os"
    /\ max_ms \in BudgetArgs
    /\ banned_arg \in BannedArgs
    /\ repeat \in 0..MaxRepeat
    /\ banned = BannedOrEmpty(banned_arg)
    /\ i = 0
    /\ timings = <<>>
    /\ all_times_us = <<>>
    /\ all_timings = <<>>
    /\ measured = <<>>
    /\ result = None
    /\ top_n = 0
    /\ top = <<>>

\* lines 65-69: one iteration of the measurement loop
Measure ==
    /\ pc = "loop"
    /\ i < repeat
    /\ \E ts \in RunTimings, total_time_us \in RunTotals :
          /\ timings' = ts
          /\ measured' = Append(measured, total_time_us)
          /\ all_times_us' = Append(all_times_us, total_time_us)
          /\ all_timings' = KeptTimings(all_timings, ts)
    /\ i' = i + 1
    /\ UNCHANGED <<pc, module, max_ms, banned_arg, repeat, banned, result, top_n, top>>

\* lines 71-121: aggregate, build the result, check, return
Finish ==
    /\ pc = "loop"
    /\ i >= repeat
    /\ LET final == FinalTimeUs(all_times_us, repeat)
       IN  IF final.raised
           THEN /\ pc' = "raised"
                /\ result' = result
           ELSE /\ pc' = "returned"
                /\ result' = Checked(ImportResult(module, final.val, all_timings,
                                                  all_times_us, repeat),
                                     max_ms, banned)
    /\ UNCHANGED <<module, max_ms, banned_arg, repeat, banned, i, timings,
                   all_times_us, all_timings, measured, top_n, top>>

Next == Measure \/ Finish

Spec == Init /\ [][Next]_vars

---------------------------------------------------------------------------
(* top_imports *)

InitTop ==
    /\ pc = "result"
    /\ module = "os"
    /\ max_ms = None
    /\ banned_arg = None
    /\ repeat = 1
    /\ banned = {}
    /\ i = 0
    /\ timings = <<>>
    /\ all_times_us = <<>>
    /\ all_timings = <<>>
    /\ measured = <<>>
    /\ \E imports \in TopTimings : result = ImportResult(module, 0, imports, <<>>, 1)
    /\ top_n = 0
    /\ top = <<>>

TopImports ==
    /\ pc \in {"result", "top"}
    /\ \E n \in 0..MaxTopN :
          /\ top_n' = n
          /\ top' = top_imports(result.imports, n)
    /\ pc' = "top"
    /\ UNCHANGED <<module, max_ms, banned_arg, repeat, banned, i, timings,
                   all_times_us, all_timings, measured, result>>

NextTop == TopImports

SpecTop == InitTop /\ [][NextTop]_vars

---------------------------------------------------------------------------
(* Properties *)

Returned == pc = "returned"

CountOfType(vs, type) == Cardinality({k \in 1..Len(vs) : vs[k].type = type})

\* the budget is given and the aggregated total lies above it, in whole microseconds
OverBudget ==
    \E b \in 0..MaxBudgetUs :
        /\ max_ms = Some(Ratio(b, UsPerMs))
        /\ result.total_time_us >= b + 1

\* the k-th smallest value of a non-empty sequence of integers
KthSmallest(s, k) ==
    CHOOSE v \in {s[j] : j \in 1..Len(s)} :
        /\ Cardinality({j \in 1..Len(s) : s[j] < v}) < k
        /\ Cardinality({j \in 1..Len(s) : s[j] <= v}) >= k

MedianOf(s) ==
    LET n == Len(s)
    IN  IF n % 2 = 1 THEN KthSmallest(s, (n + 1) \div 2)
        ELSE (KthSmallest(s, n \div 2) + KthSmallest(s, n \div 2 + 1)) \div 2

\* the modules of the BANNED_IMPORT violations, in list order
BannedReported(vs) ==
    LET bs == SelectSeq(vs, LAMBDA v : v.type = BANNED_IMPORT)
    IN  [k \in 1..Len(bs) |-> bs[k].module]

FirstIndex(ts, m) ==
    CHOOSE k \in 1..Len(ts) :
        /\ ts[k].module = m
        /\ \A j \in 1..(k - 1) : ts[j].module # m

\* names lists each banned name that occurs in ts once, by first occurrence
IsFirstOccurrenceList(names, ts, ban) ==
    LET matched == {m \in ban : \E k \in 1..Len(ts) : ts[k].module = m}
    IN  /\ Len(names) = Cardinality(matched)
        /\ {names[k] : k \in 1..Len(names)} = matched
        /\ \A j, k \in 1..Len(names) :
               j < k => FirstIndex(ts, names[j]) < FirstIndex(ts, names[k])

\* the position record p of ts takes in a stable sort by descending self time
Rank(ts, p) ==
    1 + Cardinality({q \in 1..Len(ts) : ts[q].self_time_us > ts[p].self_time_us})
      + Cardinality({q \in 1..(p - 1) : ts[q].self_time_us = ts[p].self_time_us})

\* C1: the violation list holds exactly one EXCEEDED_BUDGET violation when a
\* budget is given (0 included) and the aggregated total is above it, even by
\* one microsecond, and none otherwise (a total equal to the budget passes).
C1_BudgetViolationIffOver ==
    Returned =>
        CountOfType(result.violations, EXCEEDED_BUDGET) = (IF OverBudget THEN 1 ELSE 0)

C1_Witness ==
    /\ Returned
    /\ max_ms = Some(Ratio(0, UsPerMs))
    /\ result.total_time_us = 1
    /\ CountOfType(result.violations, EXCEEDED_BUDGET) = 1

\* C2: when the violation list holds both kinds, the EXCEEDED_BUDGET violation
\* is first and every BANNED_IMPORT violation comes after it; no BANNED_IMPORT
\* violation ever precedes an EXCEEDED_BUDGET violation.
C2_BudgetBeforeBanned ==
    Returned =>
        LET vs == result.violations
        IN  /\ (CountOfType(vs, EXCEEDED_BUDGET) > 0 /\ CountOfType(vs, BANNED_IMPORT) > 0)
                  => /\ vs[1].type = EXCEEDED_BUDGET
                     /\ \A k \in 2..Len(vs) : vs[k].type = BANNED_IMPORT
            /\ \A j, k \in 1..Len(vs) :
                   j < k => ~(vs[j].type = BANNED_IMPORT /\ vs[k].type = EXCEEDED_BUDGET)

C2_Witness ==
    /\ Returned
    /\ Len(result.violations) = 3
    /\ CountOfType(result.violations, EXCEEDED_BUDGET) = 1
    /\ CountOfType(result.violations, BANNED_IMPORT) = 2

\* C3: for a non-empty sequence of run totals the reported total_time_us is
\* its median: the middle sorted value for an odd count, the floor of the
\* average of the two central sorted values for an even count.
C3_TotalIsMedian ==
    (Returned /\ measured # <<>>) => result.total_time_us = MedianOf(measured)

C3_Witness ==
    /\ Returned
    /\ measured = <<1, 0, 1>>
    /\ result.total_time_us = 1

\* C4 as stated: with zero measurements (repeat = 0) check_import ends in an
\* error instead of returning a result.
C4_EmptyIsAnError ==
    (pc \in {"returned", "raised"} /\ repeat = 0) => pc = "raised"

\* C4 as amended: with zero measurements (repeat = 0) check_import raises
\* nothing and returns a result with total_time_us = 0, no run totals, no
\* imports, num_runs = 0, and median_ms and min_ms None.
C4_EmptyReturnsZero ==
    (pc \in {"returned", "raised"} /\ repeat = 0) =>
        /\ pc = "returned"
        /\ result.total_time_us = 0
        /\ result.all_times_us = <<>>
        /\ result.imports = <<>>
        /\ result.num_runs = 0
        /\ median_ms(result) = None
        /\ min_ms(result) = None

C4_Witness ==
    /\ Returned
    /\ repeat = 0
    /\ result.total_time_us = 0

\* C5: with a non-empty ban set there is exactly one BANNED_IMPORT violation
\* per distinct name that occurs in the trace and is a member of the ban set,
\* in order of first occurrence, however many records carry the name; the
\* violation's module is that name and banned_found lists the same names.
C5_OneBannedViolationPerName ==
    (Returned /\ Truthy(banned_arg)) =>
        /\ IsFirstOccurrenceList(BannedReported(result.violations),
                                 result.imports, banned_arg.val)
        /\ result.banned_found = BannedReported(result.violations)

C5_Witness ==
    /\ Returned
    /\ banned_arg = Some({"posix"})
    /\ Len(result.imports) = 2
    /\ \A k \in 1..2 : result.imports[k].module = "posix"
    /\ BannedReported(result.violations) = <<"posix">>

\* C6: after N >= 1 runs all_times_us holds the N totals in the order the
\* runs were made, num_runs = N, and imports is the timing list of the final
\* run only.
C6_RunsKeptInOrder ==
    (Returned /\ repeat >= 1) =>
        /\ result.all_times_us = measured
        /\ Len(result.all_times_us) = repeat
        /\ result.num_runs = repeat
        /\ result.imports = timings

C6_Witness ==
    /\ Returned
    /\ repeat = 3
    /\ result.all_times_us = <<1, 0, 0>>
    /\ Len(result.imports) = 1

\* C7: top_imports(n) returns min(n, number of records) records, by
\* non-increasing self time, the n largest, records of equal self time in
\* their trace order, also at the cut-off.
C7_TopImportsStable ==
    pc = "top" =>
        LET ts == result.imports
        IN  /\ Len(top) = Min2(top_n, Len(ts))
            /\ \A k \in 1..Len(top) :
                   \E p \in 1..Len(ts) : Rank(ts, p) = k /\ top[k] = ts[p]

C7_Witness ==
    /\ pc = "top"
    /\ top_n = 1
    /\ Len(result.imports) = 2
    /\ result.imports[1].self_time_us = result.imports[2].self_time_us
    /\ result.imports[1].module # result.imports[2].module
    /\ top = <<result.imports[1]>>

\* C8: check_import always returns a result, whatever violations it records,
\* and passed is true exactly when the violation list is empty.
C8_PassedIffNoViolations ==
    pc \in {"returned", "raised"} =>
        /\ pc = "returned"
        /\ passed(result) <=> result.violations = <<>>

C8_Witness ==
    /\ Returned
    /\ Len(result.violations) = 3
    /\ ~passed(result)

\* C9: with the ban set empty or omitted there is no BANNED_IMPORT violation
\* and banned_found is empty, whatever the trace; the result passes unless
\* the budget is exceeded.
C9_NoBanSetNoBanCheck ==
    (Returned /\ ~Truthy(banned_arg)) =>
        /\ CountOfType(result.violations, BANNED_IMPORT) = 0
        /\ result.banned_found = <<>>
        /\ passed(result) <=> ~OverBudget

C9_Witness ==
    /\ Returned
    /\ banned_arg = Some({})
    /\ \E k \in 1..Len(result.imports) : result.imports[k].module = "posix"
    /\ passed(result)

\* C10: for a result with at least one run, median_ms equals total_ms, the
\* total used for the budget decision, for odd and even run counts alike.
C10_MediansAgree ==
    (Returned /\ result.all_times_us # <<>>) =>
        /\ ~median_ms(result).none
        /\ RatioEQ(median_ms(result).val, total_ms(result))

===========================================================================
